---- MODULE Spec2Model ----
(***************************************************************************)
(* Model of picresizeinkb:                                                 *)
(*   - compressImageToTarget (src/utils/imageProcessor.ts:66-158), the     *)
(*     two-phase search for an encoding that fits a byte budget;           *)
(*   - getCroppedImg (src/utils/imageProcessor.ts:22-60), the cropper;     *)
(*   - App (src/App.tsx), the handlers and the object URLs they own.       *)
(*                                                                         *)
(* Numbers.  JPEG quality is a double in the source.  Here a quality q is  *)
(* the integer q * QOne with QOne = 100 * 2^10, so that 0.01, 0.05 and up  *)
(* to ten successive midpoints are exact.  The doubles the source computes *)
(* differ from these values by less than 1e-15 and every comparison the    *)
(* loop makes (minQ <= maxQ) has a margin above 0.03, so the control flow  *)
(* is the same.  The phase-2 scale is kept in tenths: the doubles          *)
(* 0.9, 0.8, 0.7000000000000001, ..., 0.10000000000000014 lie at most      *)
(* 2e-16 above k/10, so Math.floor(n * scale) = (n * k) \div 10 for every   *)
(* n below 10^13 and the test scale < 0.1 first succeeds after the ninth   *)
(* subtraction, as k < 1 does.                                             *)
(***************************************************************************)
EXTENDS Integers, Sequences, FiniteSets, TLC

VARIABLES
    \* ---- compressImageToTarget ----
    pc,             \* position of the call: "idle", "call", "phase1", "phase2", "final", "done"
    originalImage,  \* [width, height] of the decoded image (line 71)
    targetSizeKB,   \* the argument targetSizeKB
    enc,            \* the encoder behind canvas.toBlob (environment)
    minQ, maxQ,     \* lines 101-102
    bestBlob,       \* line 103
    iterations,     \* line 104
    scale,          \* line 127, in tenths
    width, height,  \* lines 80-81, also the canvas size
    log,            \* every getBlob call made so far, in order
    outcome,        \* how the call settled
    \* ---- getCroppedImg ----
    kpc,            \* position of the call: "idle", "call", "encode", "done"
    image,          \* [naturalWidth, naturalHeight, width, height]
    crop,           \* [x, y, width, height] in displayed pixels
    canvas,         \* [width, height] of the surface
    cropLog,        \* the toBlob calls made so far
    cropOutcome,    \* how the call settled
    \* ---- App (src/App.tsx) ----
    state,          \* AppState: "IDLE", "SELECTED", "PROCESSING", "COMPLETED"
    originalFile,   \* the file or cropped blob, "" for null
    fileName,       \* line 13
    previewUrl,     \* an object URL (its number), 0 for null
    targetKB,       \* the text of the size input
    result,         \* the ProcessedImage, NoResult for null
    toast,          \* the ToastMessage, NoToast for null
    history,        \* the HistoryItems, newest first
    isCropping,     \* line 33
    completedCrop,  \* a crop region has been drawn (line 35)
    mounted,        \* the App component is mounted
    effectDeps,     \* previewUrl and result as the cleanup of lines 59-64 closed over them
    urls,           \* every URL.createObjectURL made: its use and its revokeObjectURL calls
    resizing,       \* the handleResize calls suspended at line 177/179
    cropsPending,   \* the performCrop calls suspended at line 147
    now,            \* Date.now() at the last history item
    cropCalls,      \* the getCroppedImg calls made so far
    lastEvent       \* the handler that ran last

cvars == <<pc, originalImage, targetSizeKB, enc, minQ, maxQ, bestBlob,
           iterations, scale, width, height, log, outcome>>
kvars == <<kpc, image, crop, canvas, cropLog, cropOutcome>>
avars == <<state, originalFile, fileName, previewUrl, targetKB, result, toast,
           history, isCropping, completedCrop, mounted, effectDeps, urls,
           resizing, cropsPending, now, cropCalls, lastEvent>>
vars == <<cvars, kvars, avars>>

----------------------------------------------------------------------------
(* Bounds of the model *)

MaxTargetKB == 2

\* natural sizes of the images compressed: 1x1, narrow, exactly ten wide, ordinary
ImageSizes == { <<1, 1>>, <<9, 25>>, <<10, 10>>, <<25, 19>>, <<1000, 800>> }

\* monotone encoders: bytes at full resolution = base + slope * quality
EncBases == {24, 200, 1000, 3000}
EncSlopes == {0, 800, 2000}

----------------------------------------------------------------------------
(* Quality arithmetic *)

QOne == 100 * 1024        \* the fixed-point unit: quality 1.0
MinQ0 == 1024             \* let minQ = 0.01
MaxQ0 == 102400           \* let maxQ = 1.0
QStepSmall == (5 * 1024) \div 10    \* 0.005 written for 0.05
QStep == 5120             \* the 0.05 of lines 113 and 115
Phase2Quality == 51200    \* getBlob(0.5)
FinalQuality == 10240     \* getBlob(0.1)
Phase1MaxIter == 10
Phase2MaxIter == 15
InitScaleFull == 9 + 1    \* let scale = 1.0
InitScale == 9            \* let scale = 0.9
ScaleStep == 1            \* scale -= 0.1
MinScale == 1             \* if (scale < 0.1) break

\* const targetSizeBytes = targetSizeKB * 1024
TargetSizeBytes(kb) == kb * 1024

\* the division by 2 left out
MidQSum(lo, hi) == lo + hi

\* const midQ = (minQ + maxQ) / 2
MidQ(lo, hi) == (lo + hi) \div 2

\* Math.ceil in place of Math.floor
CeilScaled(n, s) == (n * s + 9) \div 10

\* Math.floor(originalImage.width * scale), scale in tenths
FloorScaled(n, s) == (n * s) \div 10

----------------------------------------------------------------------------
(* Blobs and the encoder *)

\* An encoded blob: its byte size, and the quality and surface it was encoded from.
Blob(sz, q, w, h) == [size |-> sz, quality |-> q, width |-> w, height |-> h]

\* canvas.toBlob delivered null; also the initial value of bestBlob
NullBlob == [size |-> 0 - 1, quality |-> 0, width |-> 0, height |-> 0]

IsNull(b) == b.size < 0

\* A monotone encoder: the size of the full-resolution image at quality q.
FullSize(e, q) == e.base + (e.slope * q) \div QOne

\* Sizes an unconstrained encoder may deliver, around the budget t.
FreeSizes(t) == {t - 24, t, t + 1}

\* The results getBlob(q) may resolve with on a w x h surface.
\* full: the surface is the original-size one of phase 1.
GetBlob(e, t, q, w, h, full) ==
    IF e.kind = "mono" /\ full
    THEN { Blob(FullSize(e, q), q, w, h) }
    ELSE { Blob(sz, q, w, h) : sz \in FreeSizes(t) } \cup { NullBlob }

Encoders ==
    { [kind |-> "free", base |-> 0, slope |-> 0] }
    \cup { [kind |-> "mono", base |-> b, slope |-> s] : b \in EncBases, s \in EncSlopes }

----------------------------------------------------------------------------
(* compressImageToTarget *)

NoOutcome == [kind |-> "pending", err |-> "", blob |-> NullBlob, width |-> 0, height |-> 0]

\* return { blob, width, height }
Returned(b, w, h) == [kind |-> "returned", err |-> "", blob |-> b, width |-> w, height |-> h]

\* The call rejected: err is "setup" for a failed decode or a missing context
\* (lines 71, 76-78) and "TypeError" for blob.size read on null (lines 111, 143).
Thrown(e) == [kind |-> "error", err |-> e, blob |-> NullBlob, width |-> 0, height |-> 0]

\* One getBlob call: the pass it was made in (1, 2, or 3 for the last attempt),
\* the quality asked for, the surface encoded and what toBlob delivered.
LogEntry(ph, q, w, h, b) ==
    [phase |-> ph, quality |-> q, width |-> w, height |-> h, blob |-> b]

\* the comparison reversed
FitsReversed(b, kb) == b.size >= TargetSizeBytes(kb)

\* blob.size <= targetSizeBytes (lines 111, 143)
Fits(b, kb) == b.size <= TargetSizeBytes(kb)

\* bestBlob = blob written before the if: the last encode is kept, fit or not
CandidateAlways(fit, blob, best) == blob

\* bestBlob = blob, only inside the if of line 111
Candidate(fit, blob, best) == IF fit THEN blob ELSE best

\* minQ = midQ - 0.05
NarrowUpBackward(midQ) == midQ - QStep

\* minQ = midQ + 0.05
NarrowUp(midQ) == midQ + QStep

\* maxQ = midQ - 0.5
NarrowDownTenfold(midQ) == midQ - 10 * QStep

\* maxQ = midQ - 0.05
NarrowDown(midQ) == midQ - QStep

\* the last attempt returned with the dimensions of the original image
ExhaustedFullSize(b, w, h) == Returned(b, originalImage.width, originalImage.height)

\* lines 156-157: the last attempt is returned without looking at its size
Exhausted(b, w, h) == Returned(b, w, h)

\* while (minQ <= maxQ && iterations < 10)
Phase1Continues(lo, hi, it) == lo <= hi /\ it < Phase1MaxIter

\* the two tests with their variables exchanged
Phase2ContinuesSwapped(s, it) == ~(it < MinScale) /\ s < Phase2MaxIter

\* after a scale that did not fit: the safety break of line 151 and the
\* loop test of line 130 on the incremented counter
Phase2Continues(s, it) == ~(s < MinScale) /\ it < Phase2MaxIter

\* null for result, toast
NoResult == [url |-> 0, originalFile |-> ""]
NoToast == [type |-> "", text |-> ""]

\* the handler that ran last: its name and, for the continuation of a
\* handleResize call, whether handleReset ran while it was suspended
\* (abandoned) and whether no other handler did (clean)
Event(n, cl, ab) == [name |-> n, clean |-> cl, abandoned |-> ab]

\* The App as first rendered (lines 11-36), before any handler.
AppInit ==
    /\ state = "IDLE"
    /\ originalFile = "" /\ fileName = "image.jpg" /\ previewUrl = 0
    /\ targetKB = "" /\ result = NoResult /\ toast = NoToast
    /\ history = <<>> /\ isCropping = FALSE /\ completedCrop = FALSE
    /\ mounted = TRUE
    /\ effectDeps = [previewUrl |-> 0, result |-> NoResult]
    /\ urls = <<>> /\ resizing = <<>> /\ cropsPending = <<>>
    /\ now = 0 /\ cropCalls = 0
    /\ lastEvent = Event("", FALSE, FALSE)

CompressIdle ==
    /\ pc = "idle"
    /\ originalImage = [width |-> 0, height |-> 0]
    /\ targetSizeKB = 0
    /\ enc = [kind |-> "free", base |-> 0, slope |-> 0]
    /\ minQ = 0 /\ maxQ = 0 /\ bestBlob = NullBlob /\ iterations = 0
    /\ scale = 0 /\ width = 0 /\ height = 0
    /\ log = <<>> /\ outcome = NoOutcome

CropIdle ==
    /\ kpc = "idle"
    /\ image = [naturalWidth |-> 0, naturalHeight |-> 0, width |-> 0, height |-> 0]
    /\ crop = [x |-> 0, y |-> 0, width |-> 0, height |-> 0]
    /\ canvas = [width |-> 0, height |-> 0]
    /\ cropLog = <<>>
    /\ cropOutcome = [kind |-> "pending", err |-> "", blob |-> NullBlob]

\* A call compressImageToTarget(file, targetSizeKB) has been made.
Init ==
    /\ pc = "call"
    /\ \E sz \in ImageSizes : originalImage = [width |-> sz[1], height |-> sz[2]]
    /\ targetSizeKB \in 1..MaxTargetKB
    /\ enc \in Encoders
    /\ minQ = 0 /\ maxQ = 0 /\ bestBlob = NullBlob /\ iterations = 0
    /\ scale = 0 /\ width = 0 /\ height = 0
    /\ log = <<>> /\ outcome = NoOutcome
    /\ CropIdle
    /\ AppInit

\* Lines 70-104: decode the file, get the canvas and its context, draw, and
\* initialise the search.  fileToImage may reject, getContext may return null.
Setup ==
    /\ pc = "call"
    /\ \E decoded \in BOOLEAN, ctx \in BOOLEAN :
         IF decoded /\ ctx
         THEN /\ width' = originalImage.width
              /\ height' = originalImage.height
              /\ minQ' = MinQ0
              /\ maxQ' = MaxQ0
              /\ bestBlob' = NullBlob
              /\ iterations' = 0
              /\ pc' = "phase1"
              /\ UNCHANGED outcome
         ELSE /\ pc' = "done"
              /\ outcome' = Thrown("setup")
              /\ UNCHANGED <<width, height, minQ, maxQ, bestBlob, iterations>>
    /\ UNCHANGED <<originalImage, targetSizeKB, enc, scale, log>>
    /\ UNCHANGED <<kvars, avars>>

\* Lines 107-138: one iteration of the quality search, with the loop test
\* that follows it and, when the loop ends, the return of line 122 or the
\* entry into the second pass, whose first surface is set and drawn before
\* the call suspends at line 141.
Phase1Iter ==
    /\ pc = "phase1"
    /\ LET midQ == MidQ(minQ, maxQ) IN
       \E blob \in GetBlob(enc, TargetSizeBytes(targetSizeKB), midQ, width, height, TRUE) :
         /\ log' = Append(log, LogEntry(1, midQ, width, height, blob))
         /\ IF IsNull(blob)
            THEN \* blob.size on null throws a TypeError
                 /\ pc' = "done"
                 /\ outcome' = Thrown("TypeError")
                 /\ UNCHANGED <<minQ, maxQ, bestBlob, iterations, scale>>
            ELSE LET fit == Fits(blob, targetSizeKB)
                     lo == IF fit THEN NarrowUp(midQ) ELSE minQ
                     hi == IF fit THEN maxQ ELSE NarrowDown(midQ)
                     best == Candidate(fit, blob, bestBlob)
                     it == iterations + 1
                 IN  /\ minQ' = lo
                     /\ maxQ' = hi
                     /\ bestBlob' = best
                     /\ IF Phase1Continues(lo, hi, it)
                        THEN /\ pc' = "phase1"
                             /\ iterations' = it
                             /\ UNCHANGED <<scale, outcome>>
                        ELSE IF ~IsNull(best)
                        THEN /\ pc' = "done"
                             /\ outcome' = Returned(best, width, height)
                             /\ iterations' = it
                             /\ UNCHANGED scale
                        ELSE /\ pc' = "phase2"
                             /\ scale' = InitScale
                             /\ iterations' = 0
                             /\ UNCHANGED outcome
    /\ IF pc' = "phase2"
       THEN /\ width' = FloorScaled(originalImage.width, scale')
            /\ height' = FloorScaled(originalImage.height, scale')
       ELSE UNCHANGED <<width, height>>
    /\ UNCHANGED <<originalImage, targetSizeKB, enc>>
    /\ UNCHANGED <<kvars, avars>>

\* Lines 141-153 and 130-138: the encode of the surface is delivered; the
\* rest of the iteration of the dimension search, the loop test that follows
\* it and, when the loop goes on, the surface of the next scale, which is set
\* and drawn before the call suspends again at line 141.
Phase2Iter ==
    /\ pc = "phase2"
    /\ LET w == width
           h == height
       IN
       /\ \E blob \in GetBlob(enc, TargetSizeBytes(targetSizeKB), Phase2Quality, w, h, FALSE) :
            /\ log' = Append(log, LogEntry(2, Phase2Quality, w, h, blob))
            /\ IF IsNull(blob)
               THEN /\ pc' = "done"
                    /\ outcome' = Thrown("TypeError")
                    /\ UNCHANGED <<scale, iterations, width, height>>
               ELSE IF Fits(blob, targetSizeKB)
               THEN /\ pc' = "done"
                    /\ outcome' = Returned(blob, w, h)
                    /\ UNCHANGED <<scale, iterations, width, height>>
               ELSE LET s == scale - ScaleStep IN
                    /\ scale' = s
                    /\ IF s < MinScale
                       THEN iterations' = iterations
                       ELSE iterations' = iterations + 1
                    /\ IF Phase2Continues(s, iterations + 1)
                       THEN /\ pc' = "phase2"
                            /\ width' = FloorScaled(originalImage.width, s)
                            /\ height' = FloorScaled(originalImage.height, s)
                       ELSE /\ pc' = "final"
                            /\ UNCHANGED <<width, height>>
                    /\ UNCHANGED outcome
    /\ UNCHANGED <<originalImage, targetSizeKB, enc, minQ, maxQ, bestBlob>>
    /\ UNCHANGED <<kvars, avars>>

\* Lines 155-157: the last attempt, returned whatever it is.
FinalEncode ==
    /\ pc = "final"
    /\ \E blob \in GetBlob(enc, TargetSizeBytes(targetSizeKB), FinalQuality, width, height, FALSE) :
         /\ log' = Append(log, LogEntry(3, FinalQuality, width, height, blob))
         /\ outcome' = Exhausted(blob, width, height)
    /\ pc' = "done"
    /\ UNCHANGED <<originalImage, targetSizeKB, enc, minQ, maxQ, bestBlob,
                   iterations, scale, width, height>>
    /\ UNCHANGED <<kvars, avars>>

Next == Setup \/ Phase1Iter \/ Phase2Iter \/ FinalEncode

Spec == Init /\ [][Next]_vars

\* The event loop runs every pending continuation of the call.
FairSpec == Spec /\ WF_vars(Next)

----------------------------------------------------------------------------
(* Properties of compressImageToTarget *)

TargetBytes == TargetSizeBytes(targetSizeKB)

\* the positions in log of the getBlob calls of one pass
PassOf(ph) == { i \in DOMAIN log : log[i].phase = ph }

\* some getBlob call of this call delivered null
HasNullEncode == \E i \in DOMAIN log : IsNull(log[i].blob)

\* every getBlob call of passes 1 and 2 delivered a blob above the budget
AllSearchEncodesOver ==
    \A i \in PassOf(1) \cup PassOf(2) :
        ~IsNull(log[i].blob) /\ log[i].blob.size > TargetBytes

\* the encoder is monotone: at full resolution the size does not decrease with quality
Monotone == enc.kind = "mono"

\* the encoder never failed: it delivered a blob for every surface that has
\* pixels (canvas.toBlob delivers null for a surface without pixels)
EncoderSound ==
    \A i \in DOMAIN log :
        IsNull(log[i].blob) => (log[i].width = 0 \/ log[i].height = 0)

\* C1: the call never fails because the budget is too small: for every
\* decodable image and every positive budget, with an encoder that never
\* fails, the settled call has returned an artifact (blob, width, height) and
\* raised no error, also when every encode, the last quality-0.1 one
\* included, was above the budget.
C1_NeverFailsOnBudget ==
    (pc = "done" /\ outcome.err # "setup" /\ EncoderSound)
       => /\ outcome.kind = "returned"
          /\ ~IsNull(outcome.blob)
          /\ outcome.width = log[Len(log)].width
          /\ outcome.height = log[Len(log)].height

\* C2 (as claimed): with a monotone encoder under which some quality in
\* [0.01, 1.0] fits at full resolution (equivalently, quality 0.01 fits), no
\* scaled encode is made and the call returns at the original dimensions.
C2_Phase2OnlyIfNoQualityFits ==
    (Monotone /\ FullSize(enc, MinQ0) <= TargetBytes)
       => /\ PassOf(2) \cup PassOf(3) = {}
          /\ pc \notin {"phase2", "final"}
          /\ outcome.kind = "returned"
                => /\ outcome.width = originalImage.width
                   /\ outcome.height = originalImage.height

\* C3: with a monotone encoder under which quality 1.0 fits at full
\* resolution, the call returns from the first pass, at the original
\* dimensions, a blob within the budget.
C3_FitsAtFullQuality ==
    (Monotone /\ FullSize(enc, MaxQ0) <= TargetBytes)
       => /\ PassOf(2) \cup PassOf(3) = {}
          /\ pc \notin {"phase2", "final"}
          /\ (pc = "done" /\ outcome.err # "setup")
                => /\ outcome.kind = "returned"
                   /\ outcome.width = originalImage.width
                   /\ outcome.height = originalImage.height
                   /\ ~IsNull(outcome.blob)
                   /\ outcome.blob.size <= TargetBytes

\* C3 witness: such a call has returned.
C3_Witness ==
    /\ Monotone /\ FullSize(enc, MaxQ0) <= TargetBytes
    /\ pc = "done" /\ outcome.kind = "returned"
    /\ outcome.blob.size <= TargetBytes

\* quality 0.5 fits at full resolution under a monotone encoder
HalfFits == Monotone /\ FullSize(enc, Phase2Quality) <= TargetBytes

\* the call returned a blob within the budget at the original dimensions
ReturnedFullSizeFit ==
    /\ outcome.kind = "returned"
    /\ outcome.width = originalImage.width
    /\ outcome.height = originalImage.height
    /\ ~IsNull(outcome.blob)
    /\ outcome.blob.size <= TargetBytes

\* The last quality the first pass tries when 0.505 is over the budget and
\* everything below 0.455 fits: 0.2325, 0.36875, then 0.436875.
QAfterHalfMiss == (436875 * 1024) \div 10000

\* C4 (as claimed): when quality 0.5 fits, the call returns, at the original
\* dimensions and within the budget, a blob encoded at a quality >= 0.5.
C4_QualityAtLeastHalf ==
    (HalfFits /\ pc = "done" /\ outcome.err # "setup")
       => ReturnedFullSizeFit /\ outcome.blob.quality >= Phase2Quality

\* C4 (amended): when quality 0.5 fits, the call returns, at the original
\* dimensions and within the budget, a blob encoded at a quality >= 0.436875;
\* the quality is below 0.5 exactly when the first encode, at 0.505, was over
\* the budget.
C4_QualityAtLeastAfterHalfMiss ==
    (HalfFits /\ pc = "done" /\ outcome.err # "setup")
       => /\ ReturnedFullSizeFit
          /\ outcome.blob.quality >= QAfterHalfMiss
          /\ (outcome.blob.quality < Phase2Quality)
                <=> (log[1].blob.size > TargetBytes)

\* C4 witness: quality 0.5 fits, 0.505 does not, and the call returned the
\* blob of quality 0.436875.
C4_Witness ==
    /\ HalfFits /\ pc = "done" /\ outcome.kind = "returned"
    /\ log[1].blob.size > TargetBytes
    /\ outcome.blob.quality = QAfterHalfMiss

\* C5: a returned blob above the budget is the one of the last attempt: it
\* was made in pass 3, and every encode of passes 1 and 2 was above the budget.
\* A return from pass 1 or from inside the loop of pass 2 is within the budget.
C5_OverBudgetOnlyByExhaustion ==
    /\ (outcome.kind = "returned" /\ ~IsNull(outcome.blob)
           /\ outcome.blob.size > TargetBytes)
          => /\ log[Len(log)].phase = 3
             /\ log[Len(log)].blob = outcome.blob
             /\ AllSearchEncodesOver
    /\ (outcome.kind = "returned" /\ log[Len(log)].phase \in {1, 2})
          => ~IsNull(outcome.blob) /\ outcome.blob.size <= TargetBytes

\* C5 witness: a call that returned a blob above the budget.
C5_Witness ==
    /\ outcome.kind = "returned" /\ ~IsNull(outcome.blob)
    /\ outcome.blob.size > TargetBytes
    /\ Cardinality(PassOf(2)) > 1

\* the k-th getBlob call of pass 2 (k = 1 for scale 0.9)
Pass2Rank(i) == Cardinality({ j \in PassOf(2) : j <= i })

\* n = floor(m * (10 - k) / 10), written without the model's floor
IsFloorOfScaled(n, m, k) == n * 10 <= m * (10 - k) /\ m * (10 - k) < (n + 1) * 10

\* C6: pass 2 is made only after a pass 1 without a fit; its k-th encode is at
\* quality 0.5 on the surface floor(width * (1 - k/10)) x floor(height * (1 - k/10));
\* only its last encode can fit, and when it does the call returns that blob
\* with that surface's dimensions and encodes nothing more.
C6_FirstFittingScaleWins ==
    /\ PassOf(2) # {} =>
          \A i \in PassOf(1) : ~IsNull(log[i].blob) /\ log[i].blob.size > TargetBytes
    /\ \A i \in PassOf(2) :
          /\ log[i].quality = Phase2Quality
          /\ Pass2Rank(i) \in 1..9
          /\ IsFloorOfScaled(log[i].width, originalImage.width, Pass2Rank(i))
          /\ IsFloorOfScaled(log[i].height, originalImage.height, Pass2Rank(i))
          /\ (~IsNull(log[i].blob) /\ log[i].blob.size <= TargetBytes)
                => /\ i = Len(log)
                   /\ pc = "done"
                   /\ outcome = Returned(log[i].blob, log[i].width, log[i].height)
                   /\ \A j \in PassOf(2) : j < i => log[j].blob.size > TargetBytes

\* C6 witness: the call returned the fit of the third scale, 0.7, after the
\* scales 0.9 and 0.8 were above the budget.
C6_Witness ==
    /\ pc = "done" /\ outcome.kind = "returned"
    /\ Cardinality(PassOf(2)) = 3
    /\ log[Len(log)].phase = 2
    /\ outcome.width = 700 /\ outcome.height = 560

\* C7: when no encode of passes 1 and 2 fits, exactly one more encode is made,
\* at quality 0.1 on the surface of scale 0.1, and the call returns its blob
\* with the dimensions floor(width / 10) x floor(height / 10), whatever its size.
C7_ExhaustionFallback ==
    (pc = "done" /\ outcome.err # "setup" /\ AllSearchEncodesOver)
       => /\ Cardinality(PassOf(3)) = 1
          /\ Cardinality(PassOf(2)) = 9
          /\ LET last == log[Len(log)] IN
             /\ last.phase = 3
             /\ last.quality = FinalQuality
             /\ IsFloorOfScaled(last.width, originalImage.width, 9)
             /\ IsFloorOfScaled(last.height, originalImage.height, 9)
             /\ last.width = log[Len(log) - 1].width
             /\ last.height = log[Len(log) - 1].height
             /\ outcome = Returned(last.blob, last.width, last.height)

\* C7 witness: the last attempt was returned although above the budget.
C7_Witness ==
    /\ pc = "done" /\ AllSearchEncodesOver /\ PassOf(3) # {}
    /\ outcome.kind = "returned"
    /\ outcome.blob.size > TargetBytes
    /\ outcome.width = 100 /\ outcome.height = 80

\* the bounds C8 states on the number of getBlob calls
EncodeCallsBounded ==
    /\ Cardinality(PassOf(1)) <= 10
    /\ Cardinality(PassOf(2)) <= 15
    /\ Cardinality(PassOf(3)) <= 1
    /\ Len(log) <= 26

\* C8: every call settles, whatever the encoder delivers, after at most 10
\* encodes in pass 1, at most 15 in pass 2 and one last attempt: at most 26.
C8_TerminatesWithinBudget == []EncodeCallsBounded /\ <>(pc = "done")

\* C8 witness: a settled call that went through all three passes.
C8_Witness ==
    /\ pc = "done"
    /\ PassOf(1) # {} /\ PassOf(2) # {} /\ PassOf(3) # {}
    /\ Len(log) = Cardinality(PassOf(1)) + Cardinality(PassOf(2)) + 1

\* C9 (as claimed): a call one of whose encodes delivered null fails with an
\* error, and no call returns a result whose blob is missing.
C9_NullEncodeFails ==
    /\ (pc = "done" /\ HasNullEncode) => outcome.kind = "error"
    /\ outcome.kind = "returned" => ~IsNull(outcome.blob)

\* C16: every quality passed to the encoder lies in [0.01, 1.0], whatever the
\* encoder delivers, and minQ never drops below 0.01.
C16_QualityInRange ==
    /\ \A i \in DOMAIN log : log[i].quality >= 1024 /\ log[i].quality <= 100 * 1024
    /\ (pc \notin {"call"} /\ outcome.err # "setup") => minQ >= 1024 /\ maxQ <= 100 * 1024

\* C16 witness: a settled call that made all 14 encodes: the midpoints down
\* to 0.028125, nine times 0.5 and the final 0.1, with minQ still 0.01.
C16_Witness ==
    /\ pc = "done" /\ Len(log) = 14
    /\ minQ = 1024
    /\ log[4].quality = (28125 * 1024) \div 10000
    /\ log[5].quality = 50 * 1024 /\ log[14].quality = 10 * 1024

\* the encode at position i of log delivered a blob within the budget
FitAt(i) == ~IsNull(log[i].blob) /\ log[i].blob.size <= TargetBytes

\* the pass-1 encodes that were within the budget
Pass1Fits == { i \in PassOf(1) : FitAt(i) }

\* C17: in pass 1 every fit has a strictly higher quality than the fits before
\* it, so the candidate, and the blob returned from pass 1, is the fit of the
\* highest quality among the pass-1 encodes, for every encoder.
C17_CandidateIsBestFit ==
    /\ \A i \in Pass1Fits : \A j \in Pass1Fits :
          i < j => log[i].quality < log[j].quality
    /\ (pc \in {"phase1", "phase2", "final"} /\ Pass1Fits # {})
          => /\ ~IsNull(bestBlob)
             /\ \E i \in Pass1Fits : log[i].blob = bestBlob
             /\ \A j \in Pass1Fits : log[j].quality <= bestBlob.quality
    /\ (outcome.kind = "returned" /\ log[Len(log)].phase = 1)
          => /\ \E i \in Pass1Fits : log[i].blob = outcome.blob
             /\ \A j \in Pass1Fits : log[j].quality <= outcome.blob.quality

\* C17 witness: under an encoder that is not monotone (0.505 over the budget,
\* 0.2325 within, 0.36875 over, 0.300625 within) the call returned the
\* highest fit, 0.300625.
C17_Witness ==
    /\ enc.kind = "free" /\ outcome.kind = "returned"
    /\ Len(log) = 4 /\ log[4].phase = 1
    /\ ~FitAt(1) /\ FitAt(2) /\ ~FitAt(3) /\ FitAt(4)
    /\ outcome.blob.quality = log[4].quality
    /\ log[4].quality > log[2].quality

\* maxQ - minQ after i pass-1 encodes: 0.99, then w / 2 - 0.05 each time
RECURSIVE WidthAfter(_)
WidthAfter(i) == IF i = 0 THEN 99 * 1024 ELSE WidthAfter(i - 1) \div 2 - 5 * 1024

\* pass 1 ran to its end: the search left it and no encode of it delivered null
Pass1Completed ==
    /\ pc \notin {"call", "phase1"} /\ outcome.err # "setup"
    /\ \A i \in PassOf(1) : ~IsNull(log[i].blob)

\* C19: pass 1 makes exactly 4 encodes whatever sizes the encoder delivers:
\* after each one maxQ - minQ goes from w to w / 2 - 0.05 (0.99, 0.445, 0.1725,
\* 0.03625, then negative), so the loop ends by minQ > maxQ, the cap of 10
\* iterations is never reached, and the qualities tried lie between 0.028125
\* and 0.981875.  (A null encode ends the call, with an error, before the
\* fourth.)
C19_Phase1FourEncodes ==
    /\ Cardinality(PassOf(1)) <= 4
    /\ Pass1Completed => Cardinality(PassOf(1)) = 4 /\ minQ > maxQ
    /\ pc = "phase1" => /\ iterations = Cardinality(PassOf(1))
                        /\ iterations < 4
                        /\ maxQ - minQ = WidthAfter(iterations)
    /\ \A i \in PassOf(1) :
          /\ log[i].quality >= (28125 * 1024) \div 10000
          /\ log[i].quality <= (981875 * 1024) \div 10000

\* C19 witness: pass 1 ended after four encodes of mixed results, with the
\* interval 0.031875 wide the wrong way round.
C19_Witness ==
    /\ Pass1Completed
    /\ Cardinality(PassOf(1)) = 4
    /\ FitAt(1) /\ ~FitAt(2) /\ FitAt(3)
    /\ minQ - maxQ = (31875 * 1024) \div 10000

\* C20: pass 2 makes at most 9 encodes (scales 0.9 down to 0.1) and is left by
\* the return of a fit or by the break on scale < 0.1, never by the cap of 15
\* iterations; a call makes at most 4 + 9 + 1 = 14 encodes.
C20_Phase2NineEncodes ==
    /\ Cardinality(PassOf(2)) <= 9
    /\ Len(log) <= 14
    /\ pc = "phase2" => iterations < 9 /\ iterations = Cardinality(PassOf(2))
    /\ (pc = "final" \/ PassOf(3) # {}) => scale < 1 /\ iterations < 15
    /\ (pc = "done" /\ PassOf(2) # {} /\ PassOf(3) = {})
          => \/ (outcome.kind = "returned" /\ FitAt(Len(log)))
             \/ (outcome.kind = "error" /\ IsNull(log[Len(log)].blob))

\* C20 witness: the ninth scale did not fit and the break left the loop.
C20_Witness ==
    /\ pc = "final"
    /\ Cardinality(PassOf(2)) = 9
    /\ scale = 0 /\ iterations = 8

----------------------------------------------------------------------------
(* getCroppedImg *)

(***************************************************************************)
(* The surface size is the double crop.width * (naturalWidth / width),     *)
(* which the canvas truncates toward zero when it is assigned to           *)
(* canvas.width (an unsigned long).  For integers c, n, d the operators    *)
(* below give that truncation exactly, from the IEEE-754 rounding of the   *)
(* quotient and of the product, with small integers only:                  *)
(*  - when c*n/d is no whole number it lies at least 1/d from one, far     *)
(*    more than the rounding error, and the result is floor(c*n/d);        *)
(*  - when c*n/d is a whole number m, the product is m unless the          *)
(*    quotient was rounded down and the product then rounds below m,       *)
(*    which gives m - 1.                                                   *)
(***************************************************************************)

MaxDisplay == 11

\* displayed and natural sizes of the image cropped, per axis
DisplaySizes == {2, MaxDisplay}
NaturalSizes == {5, 15}

\* sizes of the blob toBlob may deliver
CropBlobSizes == {600, 5000}

RECURSIVE Pow2(_)
Pow2(k) == IF k <= 0 THEN 1 ELSE 2 * Pow2(k - 1)

\* floor(log2(n / d)) for n, d > 0: the exponent of the double n / d
RECURSIVE Log2Floor(_, _)
Log2Floor(n, d) ==
    IF n >= d
    THEN IF n >= 2 * d THEN 1 + Log2Floor(n, 2 * d) ELSE 0
    ELSE Log2Floor(2 * n, d) - 1

\* (n * 2^e) mod d, by e doublings
RECURSIVE ShiftedRemainder(_, _, _)
ShiftedRemainder(n, d, e) ==
    IF e <= 0 THEN n % d ELSE (2 * ShiftedRemainder(n, d, e - 1)) % d

\* The double c * (n / d) lies below the whole number m = c*n/d.
\* r is what the 53-bit significand of n / d leaves out; the quotient is
\* rounded down when 0 < 2r < d, and the product m - c*r/(d * 2^e) then rounds
\* to the double below m when it is nearer to it than to m.
ProductFallsShort(c, n, d) ==
    LET m == (c * n) \div d
        lx == Log2Floor(n, d)
        r == ShiftedRemainder(n, d, 52 - lx)
        k == Log2Floor(m, 1) - lx
        gap == IF m = Pow2(Log2Floor(m, 1)) THEN 4 ELSE 2
    IN  /\ r # 0
        /\ 2 * r < d
        /\ IF k >= 0 THEN gap * c * r > d * Pow2(k)
                     ELSE gap * c * r * Pow2(0 - k) > d

\* Math.round(c * n / d), for the operator below
RoundedProduct(c, n, d) == (2 * c * n + d) \div (2 * d)

\* the product rounded to the nearest integer instead of truncated
MulScaleRounded(c, n, d) == RoundedProduct(c, n, d)

\* canvas.width = crop.width * scaleX with scaleX = naturalWidth / width:
\* the integer the canvas keeps (lines 28-32)
MulScaleTrunc(c, n, d) ==
    IF (c * n) % d # 0
    THEN (c * n) \div d
    ELSE IF ProductFallsShort(c, n, d) THEN (c * n) \div d - 1 ELSE (c * n) \div d

CropPending == [kind |-> "pending", err |-> "", blob |-> NullBlob]
CropResolved(b) == [kind |-> "resolved", err |-> "", blob |-> b]
CropFailed(e) == [kind |-> "error", err |-> e, blob |-> NullBlob]

\* resolve(blob!) as in getBlob: the null check left out
ToBlobCallbackUnchecked(blob) == CropResolved(blob)

\* the callback of lines 52-58: reject on null, resolve otherwise
ToBlobCallback(blob) ==
    IF IsNull(blob) THEN CropFailed("Canvas is empty") ELSE CropResolved(blob)

\* the crop regions of one axis of displayed length d: every width, placed
\* at the start or at the end
AxisRegions(d) == { <<x, w>> \in (0..d) \X (1..d) : x \in {0, d - w} }

\* A call getCroppedImg(image, crop, type) has been made with a region
\* inside the displayed image.
InitCrop ==
    /\ kpc = "call"
    /\ \E nw \in NaturalSizes, nh \in NaturalSizes, dw \in DisplaySizes, dh \in DisplaySizes :
         /\ image = [naturalWidth |-> nw, naturalHeight |-> nh, width |-> dw, height |-> dh]
         /\ \E h \in AxisRegions(dw), v \in AxisRegions(dh) :
              crop = [x |-> h[1], y |-> v[1], width |-> h[2], height |-> v[2]]
    /\ canvas = [width |-> 0, height |-> 0]
    /\ cropLog = <<>>
    /\ cropOutcome = CropPending
    /\ CompressIdle
    /\ AppInit

\* Lines 27-49: create and size the canvas, get its context (or throw), draw.
CropSetup ==
    /\ kpc = "call"
    /\ canvas' = [width |-> MulScaleTrunc(crop.width, image.naturalWidth, image.width),
                  height |-> MulScaleTrunc(crop.height, image.naturalHeight, image.height)]
    /\ \E ctx \in BOOLEAN :
         IF ctx
         THEN kpc' = "encode" /\ UNCHANGED cropOutcome
         ELSE kpc' = "done" /\ cropOutcome' = CropFailed("No 2d context")
    /\ UNCHANGED <<image, crop, cropLog>>
    /\ UNCHANGED <<cvars, avars>>

\* Lines 51-59: canvas.toBlob(callback, type, 1.0) and its callback.
CropToBlob ==
    /\ kpc = "encode"
    /\ \E blob \in { Blob(sz, QOne, canvas.width, canvas.height) : sz \in CropBlobSizes }
                    \cup { NullBlob } :
         /\ cropLog' = Append(cropLog, LogEntry(0, QOne, canvas.width, canvas.height, blob))
         /\ cropOutcome' = ToBlobCallback(blob)
    /\ kpc' = "done"
    /\ UNCHANGED <<image, crop, canvas>>
    /\ UNCHANGED <<cvars, avars>>

NextCrop == CropSetup \/ CropToBlob

SpecCrop == InitCrop /\ [][NextCrop]_vars

----------------------------------------------------------------------------
(* Properties of getCroppedImg *)

\* the crop region lies inside the displayed image
ValidRegion ==
    /\ crop.x >= 0 /\ crop.y >= 0 /\ crop.width > 0 /\ crop.height > 0
    /\ crop.x + crop.width <= image.width
    /\ crop.y + crop.height <= image.height

\* n is what truncating the double c * (num / den) can give: at most the
\* floor of the exact product, equal to it when the product is no whole
\* number or the scale num / den is one, and otherwise at most one below
TruncatedProduct(n, c, num, den) ==
    LET fl == (c * num) \div den IN
    /\ n <= fl
    /\ n >= fl - 1
    /\ ((c * num) % den # 0 \/ num % den = 0) => n = fl

\* C10 (as claimed): the surface encoded for a region inside the displayed
\* image is round(crop.width * scaleX) x round(crop.height * scaleY).
C10_CropDimsRounded ==
    (ValidRegion /\ cropLog # <<>>)
       => /\ cropLog[1].width = RoundedProduct(crop.width, image.naturalWidth, image.width)
          /\ cropLog[1].height = RoundedProduct(crop.height, image.naturalHeight, image.height)

\* C10 (amended): the surface encoded is the truncation toward zero of the
\* double products crop.width * scaleX and crop.height * scaleY: the floor
\* of the exact product, or one less when the exact product is a whole number
\* and the scale is not.
C10_CropDimsTruncated ==
    (ValidRegion /\ cropLog # <<>>)
       => /\ TruncatedProduct(cropLog[1].width, crop.width, image.naturalWidth, image.width)
          /\ TruncatedProduct(cropLog[1].height, crop.height, image.naturalHeight, image.height)
          /\ cropLog[1].width = canvas.width
          /\ cropLog[1].height = canvas.height

\* C10 witness: the whole width 11 of an image 15 wide shown 11 wide was
\* encoded 14 wide (the double 11 * (15 / 11) is 14.999999999999998), and a
\* height of 1 * 7.5 was encoded 7 high.
C10_Witness ==
    /\ kpc = "done" /\ cropOutcome.kind = "resolved"
    /\ crop.width = 11 /\ image.naturalWidth = 15 /\ image.width = 11
    /\ cropLog[1].width = 14
    /\ crop.height = 1 /\ image.naturalHeight = 15 /\ image.height = 2
    /\ cropLog[1].height = 7

\* C11: a settled getCroppedImg call either resolved with a non-null blob or
\* failed: it threw "No 2d context" before any encode when there was no
\* context, and rejected "Canvas is empty" when toBlob delivered null; it makes
\* at most one toBlob call, at quality 1.0, and never resolves without a blob.
C11_CropResolvesOrFails ==
    /\ Len(cropLog) <= 1
    /\ \A i \in DOMAIN cropLog : cropLog[i].quality = 100 * 1024
    /\ cropOutcome.kind = "resolved"
          => /\ ~IsNull(cropOutcome.blob)
             /\ Len(cropLog) = 1
             /\ cropLog[1].blob = cropOutcome.blob
    /\ kpc = "done"
          => /\ cropOutcome.kind \in {"resolved", "error"}
             /\ cropLog = <<>> <=> cropOutcome = CropFailed("No 2d context")
             /\ (cropLog # <<>> /\ IsNull(cropLog[1].blob))
                   <=> cropOutcome = CropFailed("Canvas is empty")
    /\ kpc # "done" => cropOutcome.kind = "pending"

\* C11 witness: toBlob delivered null and the call rejected after its one encode.
C11_Witness ==
    /\ kpc = "done"
    /\ Len(cropLog) = 1 /\ IsNull(cropLog[1].blob)
    /\ cropOutcome.kind = "error" /\ cropOutcome.err = "Canvas is empty"

----------------------------------------------------------------------------
(* App (src/App.tsx) *)

(***************************************************************************)
(* Each action is one handler, or the continuation of an async handler     *)
(* after its await, together with the render that follows its state        *)
(* updates and the effect of lines 59-64: when previewUrl or result differ *)
(* from what the effect last ran with, React first runs the cleanup that   *)
(* the previous run returned, which revokes the previewUrl and result.url  *)
(* of that earlier render.  compressImageToTarget and getCroppedImg appear *)
(* by their outcome only: they resolve or reject.  The history panel can   *)
(* be opened from the menu at any time, so deleteHistoryItem is always     *)
(* available, and so is the download of a history item.  Theme, menu,      *)
(* search and sort do not touch the state modelled here, and of            *)
(* handleDownload only its toast does.                                     *)
(***************************************************************************)

MaxUrls == 5        \* URL.createObjectURL calls in one run
MaxCrops == 1       \* getCroppedImg calls in one run
MaxInFlight == 2    \* handleResize and performCrop calls suspended at once

\* the image files the user may pick
Files == {"a.jpg"}

\* what the user may type into the size input
TargetInputs == {"", "0", "50"}

\* parseInt(targetKB, 10) of the inputs above
ParseInt(t) == IF t = "50" THEN 50 ELSE 0

\* the blob getCroppedImg resolves with
CroppedBlob == "cropped blob"

Toast(ty, tx) == [type |-> ty, text |-> tx]

\* URL.createObjectURL: the new URL is the number Len(us) + 1
CreateObjectURL(us, kind) == Append(us, [kind |-> kind, revoked |-> <<>>])

\* URL.revokeObjectURL(u) written as "if (u) URL.revokeObjectURL(u)"; by
\* records which code revoked
RevokeObjectURL(us, u, by) ==
    IF u = 0 THEN us ELSE [us EXCEPT ![u].revoked = Append(@, by)]

\* the cleanup of lines 60-63, closed over deps
Cleanup(us, deps) ==
    RevokeObjectURL(RevokeObjectURL(us, deps.previewUrl, "effect"),
                    deps.result.url, "effect")

Deps(pu, res) == [previewUrl |-> pu, result |-> res]

\* the dependency comparison of line 64
DepsChanged(pu, res) == Deps(pu, res) # effectDeps

\* urls after the render that follows an update to previewUrl = pu, result = res
EffectUrls(us, pu, res) ==
    IF mounted /\ DepsChanged(pu, res) THEN Cleanup(us, effectDeps) ELSE us

\* what the effect is closed over after that render
EffectDeps(pu, res) ==
    IF mounted /\ DepsChanged(pu, res) THEN Deps(pu, res) ELSE effectDeps

\* line 350, line 361, line 449
UploadView == state = "IDLE"
ConfigureView == state \in {"SELECTED", "PROCESSING"} /\ originalFile # "" /\ previewUrl # 0
ResultView == state = "COMPLETED" /\ result # NoResult

\* bookkeeping on the suspended handleResize calls: another handler ran
Interleaved(rs) == [i \in DOMAIN rs |-> [rs[i] EXCEPT !.clean = FALSE]]

\* bookkeeping: handleReset ran
Abandoned(rs) == [i \in DOMAIN rs |-> [rs[i] EXCEPT !.clean = FALSE, !.abandoned = TRUE]]

Remove(q, i) == [j \in 1..(Len(q) - 1) |-> IF j < i THEN q[j] ELSE q[j + 1]]

\* the separate URL of line 187
HistoryUrl(resultUrl, freshUrl) == freshUrl

\* the state handleResize leaves after a failure (line 216)
StateAfterFailure == "SELECTED"

\* the newest item taken instead of the one with the id
FindUrlNewest(h, id) == IF h = <<>> THEN 0 ELSE Head(h).url

\* history.find(item => item.id === id): the url of the first such item, 0 if none
RECURSIVE FindUrl(_, _)
FindUrl(h, id) ==
    IF h = <<>> THEN 0
    ELSE IF Head(h).id = id THEN Head(h).url ELSE FindUrl(Tail(h), id)

\* prev.filter(item => item.id !== id)
RECURSIVE FilterOut(_, _)
FilterOut(h, id) ==
    IF h = <<>> THEN <<>>
    ELSE IF Head(h).id = id THEN FilterOut(Tail(h), id)
         ELSE <<Head(h)>> \o FilterOut(Tail(h), id)

\* historyRef.current.forEach(item => URL.revokeObjectURL(item.url))
RECURSIVE RevokeAll(_, _)
RevokeAll(us, h) ==
    IF h = <<>> THEN us
    ELSE RevokeAll(RevokeObjectURL(us, Head(h).url, "unmount"), Tail(h))

InitApp ==
    /\ AppInit
    /\ CompressIdle
    /\ CropIdle

\* Lines 110-124.
HandleImageSelect ==
    /\ mounted /\ UploadView
    /\ Len(urls) < MaxUrls
    /\ \E file \in Files :
         LET us1 == RevokeObjectURL(RevokeObjectURL(urls, previewUrl, "handleImageSelect"),
                                    result.url, "handleImageSelect")
             us2 == CreateObjectURL(us1, "preview")
             url == Len(us2)
         IN  /\ result' = NoResult
             /\ targetKB' = ""
             /\ originalFile' = file
             /\ fileName' = file
             /\ previewUrl' = url
             /\ state' = "SELECTED"
             /\ urls' = EffectUrls(us2, url, NoResult)
             /\ effectDeps' = EffectDeps(url, NoResult)
    /\ resizing' = Interleaved(resizing)
    /\ lastEvent' = Event("handleImageSelect", FALSE, FALSE)
    /\ UNCHANGED <<toast, history, isCropping, completedCrop, mounted, cropsPending, now, cropCalls>>
    /\ UNCHANGED <<cvars, kvars>>

\* Lines 381 and 391: the Crop and Cancel buttons.
SetIsCropping ==
    /\ mounted /\ ConfigureView
    /\ isCropping' = ~isCropping
    /\ resizing' = Interleaved(resizing)
    /\ lastEvent' = Event("setIsCropping", FALSE, FALSE)
    /\ UNCHANGED <<state, originalFile, fileName, previewUrl, targetKB, result, toast,
                   history, completedCrop, mounted, effectDeps, urls, cropsPending, now, cropCalls>>
    /\ UNCHANGED <<cvars, kvars>>

\* Line 369: the user finished drawing a crop region.
OnCropComplete ==
    /\ mounted /\ ConfigureView /\ isCropping /\ ~completedCrop
    /\ completedCrop' = TRUE
    /\ resizing' = Interleaved(resizing)
    /\ lastEvent' = Event("onComplete", FALSE, FALSE)
    /\ UNCHANGED <<state, originalFile, fileName, previewUrl, targetKB, result, toast,
                   history, isCropping, mounted, effectDeps, urls, cropsPending, now, cropCalls>>
    /\ UNCHANGED <<cvars, kvars>>

\* Lines 144-147 and 160-162: Apply, up to the await.
PerformCrop ==
    /\ mounted /\ ConfigureView /\ isCropping
    /\ IF completedCrop /\ originalFile # ""
       THEN /\ Len(resizing) + Len(cropsPending) < MaxInFlight
            /\ cropCalls < MaxCrops
            /\ cropsPending' = Append(cropsPending, [previewUrl |-> previewUrl])
            /\ cropCalls' = cropCalls + 1
            /\ UNCHANGED isCropping
       ELSE /\ isCropping' = FALSE
            /\ UNCHANGED <<cropsPending, cropCalls>>
    /\ resizing' = Interleaved(resizing)
    /\ lastEvent' = Event("performCrop", FALSE, FALSE)
    /\ UNCHANGED <<state, originalFile, fileName, previewUrl, targetKB, result, toast,
                   history, completedCrop, mounted, effectDeps, urls, now>>
    /\ UNCHANGED <<cvars, kvars>>

\* Lines 147-159: performCrop after getCroppedImg settled.  The previewUrl
\* revoked is the one of the render the button was clicked in.
CropSettled ==
    /\ \E i \in DOMAIN cropsPending, ok \in BOOLEAN :
         /\ cropsPending' = Remove(cropsPending, i)
         /\ IF ok
            THEN /\ Len(urls) < MaxUrls
                 /\ LET us1 == CreateObjectURL(urls, "preview")
                        newUrl == Len(us1)
                        us2 == RevokeObjectURL(us1, cropsPending[i].previewUrl, "performCrop")
                    IN  IF mounted
                        THEN /\ originalFile' = CroppedBlob
                             /\ previewUrl' = newUrl
                             /\ isCropping' = FALSE
                             /\ toast' = Toast("success", "Image cropped successfully")
                             /\ urls' = EffectUrls(us2, newUrl, result)
                             /\ effectDeps' = EffectDeps(newUrl, result)
                        ELSE /\ urls' = us2
                             /\ UNCHANGED <<originalFile, previewUrl, isCropping, toast, effectDeps>>
                 /\ lastEvent' = Event("cropSucceeded", FALSE, FALSE)
            ELSE /\ toast' = IF mounted THEN Toast("error", "Failed to crop image") ELSE toast
                 /\ lastEvent' = Event("cropFailed", FALSE, FALSE)
                 /\ UNCHANGED <<originalFile, previewUrl, isCropping, urls, effectDeps>>
    /\ resizing' = Interleaved(resizing)
    /\ UNCHANGED <<state, fileName, targetKB, result, history, completedCrop, mounted, now, cropCalls>>
    /\ UNCHANGED <<cvars, kvars>>

\* Line 427: typing into the size input.
SetTargetKB ==
    /\ mounted /\ ConfigureView /\ ~isCropping
    /\ \E t \in TargetInputs : t # targetKB /\ targetKB' = t
    /\ resizing' = Interleaved(resizing)
    /\ lastEvent' = Event("setTargetKB", FALSE, FALSE)
    /\ UNCHANGED <<state, originalFile, fileName, previewUrl, result, toast, history,
                   isCropping, completedCrop, mounted, effectDeps, urls, cropsPending, now, cropCalls>>
    /\ UNCHANGED <<cvars, kvars>>

\* Lines 165-177: the Resize button (enabled as line 437 says), up to the await.
HandleResize ==
    /\ mounted /\ ConfigureView /\ ~isCropping
    /\ state # "PROCESSING" /\ targetKB # ""
    /\ IF ParseInt(targetKB) <= 0
       THEN /\ toast' = Toast("error", "Please enter a valid file size in KB")
            /\ resizing' = Interleaved(resizing)
            /\ UNCHANGED state
       ELSE /\ Len(resizing) + Len(cropsPending) < MaxInFlight
            /\ state' = "PROCESSING"
            /\ resizing' = Append(Interleaved(resizing),
                                  [originalFile |-> originalFile, fileName |-> fileName,
                                   clean |-> TRUE, abandoned |-> FALSE])
            /\ UNCHANGED toast
    /\ lastEvent' = Event("handleResize", FALSE, FALSE)
    /\ UNCHANGED <<originalFile, fileName, previewUrl, targetKB, result, history,
                   isCropping, completedCrop, mounted, effectDeps, urls, cropsPending, now, cropCalls>>
    /\ UNCHANGED <<cvars, kvars>>

\* Lines 179-217: handleResize after compressImageToTarget settled.  A
\* rejection, or a result without a blob (createObjectURL(null) throws), goes
\* to the catch.  Two items made within the same millisecond share their id.
ResizeSettled ==
    /\ \E i \in DOMAIN resizing, ok \in BOOLEAN :
         /\ resizing' = Interleaved(Remove(resizing, i))
         /\ IF ok
            THEN /\ Len(urls) + 2 <= MaxUrls
                 /\ LET us1 == CreateObjectURL(urls, "result")
                        url == Len(us1)
                        us2 == CreateObjectURL(us1, "history")
                        historyUrl == HistoryUrl(url, Len(us2))
                        newResult == [url |-> url, originalFile |-> resizing[i].originalFile]
                    IN  \E t \in {now, now + 1} :
                        /\ t > 0
                        /\ IF mounted
                           THEN /\ result' = newResult
                                /\ history' = <<[id |-> t, url |-> historyUrl,
                                                 fileName |-> resizing[i].fileName]>> \o history
                                /\ state' = "COMPLETED"
                                /\ toast' = Toast("success", "Image resized successfully!")
                                /\ urls' = EffectUrls(us2, previewUrl, newResult)
                                /\ effectDeps' = EffectDeps(previewUrl, newResult)
                                /\ now' = t
                           ELSE /\ urls' = us2
                                /\ UNCHANGED <<result, history, state, toast, effectDeps, now>>
                 /\ lastEvent' = Event("resizeSucceeded", resizing[i].clean, resizing[i].abandoned)
            ELSE /\ IF mounted
                    THEN /\ toast' = Toast("error", "Failed to process image.")
                         /\ state' = StateAfterFailure
                    ELSE UNCHANGED <<toast, state>>
                 /\ lastEvent' = Event("resizeFailed", resizing[i].clean, resizing[i].abandoned)
                 /\ UNCHANGED <<result, history, urls, effectDeps, now>>
    /\ UNCHANGED <<originalFile, fileName, previewUrl, targetKB, isCropping,
                   completedCrop, mounted, cropsPending, cropCalls>>
    /\ UNCHANGED <<cvars, kvars>>

\* Lines 239-246: the Change and Choose Another buttons.
HandleReset ==
    /\ mounted
    /\ (ConfigureView /\ ~isCropping) \/ ResultView
    /\ state' = "IDLE"
    /\ originalFile' = ""
    /\ result' = NoResult
    /\ targetKB' = ""
    /\ isCropping' = FALSE
    /\ urls' = EffectUrls(urls, previewUrl, NoResult)
    /\ effectDeps' = EffectDeps(previewUrl, NoResult)
    /\ resizing' = Abandoned(resizing)
    /\ lastEvent' = Event("handleReset", FALSE, FALSE)
    /\ UNCHANGED <<fileName, previewUrl, toast, history, completedCrop, mounted,
                   cropsPending, now, cropCalls>>
    /\ UNCHANGED <<cvars, kvars>>

\* Lines 248-252: the Resize Again button.
HandleRetrySameImage ==
    /\ mounted /\ ResultView
    /\ state' = "SELECTED"
    /\ result' = NoResult
    /\ urls' = EffectUrls(urls, previewUrl, NoResult)
    /\ effectDeps' = EffectDeps(previewUrl, NoResult)
    /\ resizing' = Interleaved(resizing)
    /\ lastEvent' = Event("handleRetrySameImage", FALSE, FALSE)
    /\ UNCHANGED <<originalFile, fileName, previewUrl, targetKB, toast, history,
                   isCropping, completedCrop, mounted, cropsPending, now, cropCalls>>
    /\ UNCHANGED <<cvars, kvars>>

\* Lines 254-262.
DeleteHistoryItem ==
    /\ mounted
    /\ \E k \in DOMAIN history :
         LET id == history[k].id IN
         /\ urls' = RevokeObjectURL(urls, FindUrl(history, id), "deleteHistoryItem")
         /\ history' = FilterOut(history, id)
    /\ toast' = Toast("success", "Removed from history")
    /\ resizing' = Interleaved(resizing)
    /\ lastEvent' = Event("deleteHistoryItem", FALSE, FALSE)
    /\ UNCHANGED <<state, originalFile, fileName, previewUrl, targetKB, result,
                   isCropping, completedCrop, mounted, effectDeps, cropsPending, now, cropCalls>>
    /\ UNCHANGED <<cvars, kvars>>

\* Lines 220-237: the Download button of the result view (line 484) and of
\* a history item (line 593).  The anchor uses result.url or item.url; no
\* URL is made or revoked.
HandleDownload ==
    /\ mounted
    /\ \/ ResultView /\ result.url # 0
       \/ \E k \in DOMAIN history : history[k].url # 0
    /\ toast' = Toast("success", "Your image is saved to your gallery")
    /\ resizing' = Interleaved(resizing)
    /\ lastEvent' = Event("handleDownload", FALSE, FALSE)
    /\ UNCHANGED <<state, originalFile, fileName, previewUrl, targetKB, result, history,
                   isCropping, completedCrop, mounted, effectDeps, urls, cropsPending, now, cropCalls>>
    /\ UNCHANGED <<cvars, kvars>>

\* Lines 82-87: the toast's timer.
DismissToast ==
    /\ mounted /\ toast # NoToast
    /\ toast' = NoToast
    /\ lastEvent' = Event("dismissToast", FALSE, FALSE)
    /\ UNCHANGED <<state, originalFile, fileName, previewUrl, targetKB, result, history,
                   isCropping, completedCrop, mounted, effectDeps, urls, resizing,
                   cropsPending, now, cropCalls>>
    /\ UNCHANGED <<cvars, kvars>>

\* The component unmounts: the cleanups of lines 60-63 and 74-78 run.
Unmount ==
    /\ mounted
    /\ mounted' = FALSE
    /\ urls' = RevokeAll(Cleanup(urls, effectDeps), history)
    /\ resizing' = Interleaved(resizing)
    /\ lastEvent' = Event("unmount", FALSE, FALSE)
    /\ UNCHANGED <<state, originalFile, fileName, previewUrl, targetKB, result, toast,
                   history, isCropping, completedCrop, effectDeps, cropsPending, now, cropCalls>>
    /\ UNCHANGED <<cvars, kvars>>

NextApp ==
    \/ HandleImageSelect \/ SetIsCropping \/ OnCropComplete \/ PerformCrop
    \/ CropSettled \/ SetTargetKB \/ HandleResize \/ ResizeSettled
    \/ HandleReset \/ HandleRetrySameImage \/ DeleteHistoryItem
    \/ HandleDownload \/ DismissToast \/ Unmount

SpecApp == InitApp /\ [][NextApp]_vars

----------------------------------------------------------------------------
(* Claims about App *)

Revoked(u) == urls[u].revoked # <<>>

\* C12: a display URL is never released while it is rendered: whenever the
\* configure view is shown (state SELECTED or PROCESSING) previewUrl has not
\* been revoked, and whenever the result view is shown (state COMPLETED)
\* result.url has not been revoked.
C12_RenderedUrlNotRevoked ==
    mounted =>
        /\ (ConfigureView => ~Revoked(previewUrl))
        /\ (ResultView => ~Revoked(result.url))

HistoryUrls == {history[k].url : k \in DOMAIN history}

\* the URLs createObjectURL made for history items
CreatedForHistory == {u \in DOMAIN urls : urls[u].kind = "history"}

RevokedBy(u) == {urls[u].revoked[k] : k \in DOMAIN urls[u].revoked}

\* C13: each successful resize exposes the artifact through two distinct
\* URLs, result.url and the history item's url, and releasing the result URL
\* never invalidates a history entry: every item still present in history
\* has a url that has not been revoked, and a history url is revoked only by
\* deleteHistoryItem for that item, which also removes it, or at unmount.
C13_HistoryUrlsIndependent ==
    /\ HistoryUrls \subseteq CreatedForHistory
    /\ result.url \notin HistoryUrls
    /\ (lastEvent.name = "resizeSucceeded" /\ mounted) =>
          /\ history # <<>>
          /\ result.url # 0 /\ result.url # history[1].url
          /\ urls[result.url].kind = "result"
    /\ mounted => \A u \in HistoryUrls : ~Revoked(u)
    /\ \A u \in CreatedForHistory :
          /\ RevokedBy(u) \subseteq {"deleteHistoryItem", "unmount"}
          /\ "deleteHistoryItem" \in RevokedBy(u) => u \notin HistoryUrls

\* C13 witness: two resizes succeeded, a result URL has been released, one
\* history entry was deleted and the other is kept with its URL live.
C13_Witness ==
    /\ mounted
    /\ \E u \in HistoryUrls : ~Revoked(u)
    /\ \E u \in CreatedForHistory : "deleteHistoryItem" \in RevokedBy(u)
    /\ \E u \in DOMAIN urls : urls[u].kind = "result" /\ Revoked(u)

\* C14: every URL the application creates is released exactly once:
\* URL.revokeObjectURL is never called a second time on the same URL.
C14_RevokedAtMostOnce ==
    \A u \in DOMAIN urls : Len(urls[u].revoked) <= 1

\* the step is the continuation of a handleResize call after its
\* compressImageToTarget settled
ResizeSucceeds == lastEvent'.name = "resizeSucceeded"
ResizeFails == lastEvent'.name = "resizeFailed"

\* C15: an abandoned compression has its result discarded: if handleReset ran
\* after handleResize started and before its compressImageToTarget call
\* settled, then when the call settles no result is set, no history item is
\* added and the state does not become COMPLETED.
C15_AbandonedResultDiscarded ==
    [][ ((ResizeSucceeds \/ ResizeFails) /\ lastEvent'.abandoned /\ mounted)
          => (result' = result /\ history' = history /\ state' # "COMPLETED") ]_vars

\* C18: when compressImageToTarget fails inside handleResize with no other
\* action interleaved, the state returns from PROCESSING to SELECTED, an
\* error toast is set, result stays null, history is unchanged, originalFile
\* and previewUrl are unchanged, no URL is made or revoked and no new
\* compression is issued.
C18_FailureSurfacedOnce ==
    [][ (ResizeFails /\ lastEvent'.clean /\ mounted) =>
          /\ state = "PROCESSING" /\ state' = "SELECTED"
          /\ toast' = Toast("error", "Failed to process image.")
          /\ result = NoResult /\ result' = NoResult
          /\ history' = history
          /\ originalFile' = originalFile /\ previewUrl' = previewUrl
          /\ urls' = urls
          /\ Len(resizing') = Len(resizing) - 1 ]_vars

----------------------------------------------------------------------------
(* Further claims about compressImageToTarget *)

\* C21: every surface compressImageToTarget encodes has width >= 1 and
\* height >= 1: for every image with natural width and height >= 1, each
\* phase-2 surface and the surface of the final quality-0.1 encode is
\* non-empty.
C21_SurfacesNonEmpty ==
    (originalImage.width >= 1 /\ originalImage.height >= 1) =>
        \A i \in DOMAIN log : log[i].width >= 1 /\ log[i].height >= 1

----------------------------------------------------------------------------
(* Further claims about App *)

\* the number of the views of lines 350, 361 and 449 that are rendered
ViewsRendered ==
    (IF UploadView THEN 1 ELSE 0) + (IF ConfigureView THEN 1 ELSE 0)
        + (IF ResultView THEN 1 ELSE 0)

\* C22: after any interleaving of user actions and completions of resizes,
\* whenever the state is SELECTED or PROCESSING both originalFile and
\* previewUrl are non-null, and whenever it is COMPLETED result is non-null,
\* so exactly one of the upload, configure and result views is rendered.
C22_ExactlyOneView ==
    /\ state \in {"SELECTED", "PROCESSING"} => (originalFile # "" /\ previewUrl # 0)
    /\ state = "COMPLETED" => result # NoResult
    /\ ViewsRendered = 1

\* C23: at most one compression is in flight at any time: from the moment
\* handleResize sets state PROCESSING until its compressImageToTarget call
\* settles, no sequence of user actions, 'Change' followed by selecting
\* another image included, starts a second handleResize compression.
C23_OneCompressionInFlight ==
    Len(resizing) <= 1

====
